---- MODULE Spec2Model ----
(***************************************************************************)
(* Model of the browser client of the traffic advisory system:             *)
(*   src/app/static/js/main.js  (App: selection, prediction, ETA display)  *)
(*   src/app/static/js/map.js   (TrafficMap: markers, location, route,     *)
(*                               the all-cities overlay)                   *)
(*   src/app/static/js/utils.js (Utils: debounce, validateForm)            *)
(*   src/unnamed/part_000       (the other TrafficMap of the repository:   *)
(*                               locateUser, updateTrafficMarker)          *)
(*                                                                         *)
(* JavaScript runs one task at a time.  An async function runs up to its   *)
(* first pending await inside the task that called it; everything after    *)
(* the await runs in the task that delivers the awaited result, together   *)
(* with the continuations of the callers awaiting the function (these are  *)
(* microtasks, drained before the next task).  Each action below is one    *)
(* such task.  `await fetch(..)` followed by `await response.json()` is    *)
(* one delivery step: between the two awaits the function touches no       *)
(* state, so the step that only moves it from one await to the next        *)
(* commutes with every other task.                                         *)
(*                                                                         *)
(* An object-or-null variable holds a set with at most one element, {}     *)
(* being null.  A string-or-null variable holds NULL for null.             *)
(***************************************************************************)
EXTENDS Integers, FiniteSets, Sequences, TLC

\* ---------------------------------------------------------------- bounds
\* Number of traffic-for-city fetches issued by showCityTraffic in a run.
MaxTrafficFetches == 2
\* Number of /api/traffic-prediction requests issued in a run.
MaxPredictions == 2
\* Number of /api/calculate-eta requests issued in a run.
MaxEtaRequests == 2
\* Number of geolocation requests issued in a run.
MaxLocates == 1
\* Number of quickPredict timers that may be pending together.
MaxTimers == 2
\* Number of runs of showAllCitiesOnMap started in a run.
MaxOverlayRuns == 2
\* Number of calls of a debounced function in a run.
MaxDebounceCalls == 3

\* ------------------------------------------------------------- constants
NULL == "null"
\* Keys of window.appData.cities (the values of the city <select>).
KnownCities == {"0", "1"}
\* An id that is no key of window.appData.cities.
UnknownCities == {"9"}
CityIds == KnownCities \cup UnknownCities

\* Values the form fields take in the model; 0 is the value `||` treats as
\* missing, the others are ordinary values.
FormHours == {0, 17}
FormDays == {0, 3}
FormWeathers == {0, 1}
\* A value of #hour outside 0..23.
OutOfRangeHours == {24}
\* All values of Date.getDay(), and the first, a middle and the last value
\* of Date.getHours().
CalendarDays == 0 .. 6
CalendarHours == {0, 12, 23}
\* Values of Date.getHours() and Date.getDay() (0 = Sunday) in the model.
ClockHours == {17}
ClockDays == {0, 4}

\* How a network call ends: success=true in the body, success=false in the
\* body, or an exception (fetch rejects, or response.json() rejects).
Responses == {"success", "unsuccessful", "error"}

VARIABLES
    \* main.js, private variables of App
    currentCityId, currentCityData, currentTrafficData,
    \* DOM elements written by App
    selectedCityInfo,      \* style.display of #selectedCityInfo
    cityDetails,           \* content of #cityDetails
    trafficLevel,          \* content of the #trafficLevel badge
    trafficMessage,        \* content of #trafficMessage
    recommendationsList,   \* content of #recommendationsList
    etaDisplay,            \* content of #etaDisplay
    etaBtnDisabled,        \* #calculateETA.disabled
    loadingOverlay,        \* TRUE when #loadingOverlay is displayed
    formHour, formDay, formWeather,   \* values of #hour, #day, #weather
    now,                   \* the clock as updateFormWithCurrentTime last read
                           \* it: getHours() and getDay() (0 = Sunday)
    \* map.js, private variables of TrafficMap
    map, mapInitialized, userLocation, userMarker, currentTrafficMarker,
    routeLayer, destinationMarker,
    layers,                \* the layers currently added to the Leaflet map
    \* asynchronous work in flight
    trafficFetches, predictionFetches, etaFetches, geoRequests, timers,
    \* identity of the requests issued so far, per kind
    trafficSeq, predictionSeq, etaSeq, locateSeq,
    \* the last completed call of TrafficMap.calculateETA: its argument, its
    \* request (0 when it returned before the fetch), how the request ended
    \* and the value returned ("null" or "data")
    etaReturn,
    \* the last settled call of App.predictTraffic: its request (0 when it
    \* returned before the fetch), how the request ended and how the promise
    \* of the call settled ("fulfilled" or "rejected")
    predictReturn,
    \* map.js, the all-cities overlay
    showAllCities, allCitiesLayer, cityMarkers,
    overlayRuns,           \* the calls of showAllCitiesOnMap still in their
                           \* loop: the city they are at, the markers made,
                           \* and how the fetch of each city before ended
    overlaySeq,            \* identity of the calls of showAllCitiesOnMap
    \* the overlay as the last call of clearCitySelection found it
    clearedOverlay,
    \* part_000: the message locateUser last made for
    \* App.updateLocationStatus
    locationStatus,
    \* utils.js, one function made by Utils.debounce(func, wait)
    timeout,               \* the closure's `timeout`: a timer id, 0 before any
    debounceTimers,        \* the timers set by the closure and not yet fired
    invoked,               \* the invocations of func, in order: the arguments,
                           \* and the number of calls made by then
    calls,                 \* the arguments of the calls of the debounced
                           \* function, in order
    \* utils.js, validateForm: its argument and the list it returned
    formData, errors,
    \* the last call of a function that writes nothing (findNearestCity,
    \* calculateDistance, the lookups by traffic level, init once the map
    \* is initialised): its name with its arguments, and what it returned
    called, returned,
    \* part_000: the popup updateTrafficMarker bound to the traffic marker,
    \* with the level it was made for
    popup

appVars == <<currentCityId, currentCityData, currentTrafficData>>
domVars == <<selectedCityInfo, cityDetails, trafficLevel, trafficMessage,
             recommendationsList, etaDisplay, etaBtnDisabled, loadingOverlay>>
formVars == <<formHour, formDay, formWeather, now>>
mapVars == <<map, mapInitialized, userLocation, userMarker, currentTrafficMarker,
             routeLayer, destinationMarker, layers>>
flightVars == <<trafficFetches, predictionFetches, etaFetches, geoRequests, timers>>
seqVars == <<trafficSeq, predictionSeq, etaSeq, locateSeq>>
clientVars == <<appVars, domVars, formVars, mapVars, flightVars, seqVars, etaReturn,
                predictReturn>>
overlayVars == <<showAllCities, allCitiesLayer, cityMarkers, overlayRuns, overlaySeq>>
debounceVars == <<timeout, debounceTimers, invoked, calls>>
validateVars == <<formData, errors>>
pureVars == <<called, returned>>
utilVars == <<debounceVars, validateVars, pureVars, popup>>
\* What the selection, prediction, location and route handlers never write.
sideVars == <<overlayVars, locationStatus, utilVars>>
vars == <<clientVars, overlayVars, clearedOverlay, locationStatus, utilVars>>

\* The day index of the system (0 = Monday) for a calendar day (0 = Sunday).
systemDay(currentDay) == IF currentDay = 0 THEN 6 ELSE currentDay - 1

\* A layer of the map: a marker or a polyline, made by request `req`.
Layer(kind, city, req) == [kind |-> kind, city |-> city, req |-> req]

\* A state with nothing in flight and nothing on the map, in which city
\* cityId is selected (or none, NULL), the user location is location and
\* located geolocation requests have been made.
Start(cityId, location, located) ==
    /\ currentCityId = cityId /\ currentCityData = cityId /\ currentTrafficData = {}
    /\ selectedCityInfo = "none" /\ cityDetails = {}
    /\ trafficLevel = {} /\ trafficMessage = {}
    /\ recommendationsList = {} /\ etaDisplay = {}
    /\ etaBtnDisabled = (location = {}) /\ loadingOverlay = FALSE
    /\ now \in {{[hour |-> h, day |-> d]} : h \in ClockHours, d \in ClockDays}
    /\ \A c \in now : formHour = c.hour /\ formDay = systemDay(c.day)
    /\ formWeather = 0
    /\ map = FALSE /\ mapInitialized = FALSE
    /\ userLocation = location /\ userMarker = {} /\ currentTrafficMarker = {}
    /\ routeLayer = {} /\ destinationMarker = {} /\ layers = {}
    /\ trafficFetches = {} /\ predictionFetches = {} /\ etaFetches = {}
    /\ geoRequests = {} /\ timers = 0
    /\ trafficSeq = 0 /\ predictionSeq = 0 /\ etaSeq = 0 /\ locateSeq = located
    /\ etaReturn = {} /\ predictReturn = {}
    /\ showAllCities = FALSE /\ allCitiesLayer = {} /\ cityMarkers = {}
    /\ overlayRuns = {} /\ overlaySeq = 0
    /\ clearedOverlay = {}
    /\ locationStatus = "none"
    /\ timeout = 0 /\ debounceTimers = {} /\ invoked = <<>> /\ calls = <<>>
    /\ formData = {} /\ errors = {}
    /\ called = {} /\ returned = {}
    /\ popup = {}

\* The state once App.init has run: initForm has put the clock's hour and
\* day into the form, TrafficMap.init is still waiting on its timer.
Init == Start(NULL, {}, 0)

\* ------------------------------------------------------- TrafficMap.init
init ==
    /\ ~mapInitialized
    /\ map' = TRUE
    /\ mapInitialized' = TRUE
    /\ UNCHANGED <<appVars, domVars, formVars, userLocation, userMarker,
                   currentTrafficMarker, routeLayer, destinationMarker, layers,
                   flightVars, seqVars, etaReturn, predictReturn>>
    /\ UNCHANGED <<sideVars, clearedOverlay>>

\* A further call of init building the map anew: the new map has none of
\* the layers.
initAgainRebuilds ==
    /\ mapInitialized
    /\ called' = {[fn |-> "init"]}
    /\ returned' = {}
    /\ layers' = {}
    /\ userMarker' = {} /\ currentTrafficMarker' = {}
    /\ routeLayer' = {} /\ destinationMarker' = {}
    /\ UNCHANGED <<appVars, domVars, formVars, map, mapInitialized, userLocation,
                   flightVars, seqVars, etaReturn, predictReturn, overlayVars,
                   clearedOverlay, locationStatus, debounceVars, validateVars, popup>>

\* TrafficMap.init() called when the map is initialised (lines 72-75): it
\* logs and returns.  The call is recorded in called.
initAgain ==
    /\ mapInitialized
    /\ called' = {[fn |-> "init"]}
    /\ returned' = {}
    /\ UNCHANGED <<clientVars, overlayVars, clearedOverlay, locationStatus,
                   debounceVars, validateVars, popup>>

\* ------------------------------------------------------- city selection
\* clearCitySelection leaving the traffic data in place.
clearCitySelectionKeepsTraffic ==
    /\ clearedOverlay' = {[showAllCities |-> showAllCities,
                            allCitiesLayer |-> allCitiesLayer]}
    /\ currentCityId' = NULL
    /\ currentCityData' = NULL
    /\ selectedCityInfo' = "none"
    /\ trafficLevel' = {}
    /\ trafficMessage' = {}
    /\ etaDisplay' = {}
    /\ etaBtnDisabled' = TRUE
    /\ UNCHANGED <<currentTrafficData, cityDetails, recommendationsList,
                   loadingOverlay>>

\* clearCitySelection leaving the city data in place.
clearCitySelectionKeepsData ==
    /\ clearedOverlay' = {[showAllCities |-> showAllCities,
                            allCitiesLayer |-> allCitiesLayer]}
    /\ currentCityId' = NULL
    /\ currentTrafficData' = {}
    /\ selectedCityInfo' = "none"
    /\ trafficLevel' = {}
    /\ trafficMessage' = {}
    /\ etaDisplay' = {}
    /\ etaBtnDisabled' = TRUE
    /\ UNCHANGED <<currentCityData, cityDetails, recommendationsList, loadingOverlay>>

\* What clearCitySelection assigns: lines 243-277; the block of lines
\* 279-283 is empty, no call of TrafficMap is made.
clearCitySelection ==
    /\ clearedOverlay' = {[showAllCities |-> showAllCities,
                            allCitiesLayer |-> allCitiesLayer]}
    /\ currentCityId' = NULL
    /\ currentCityData' = NULL
    /\ currentTrafficData' = {}
    /\ selectedCityInfo' = "none"
    /\ trafficLevel' = {}
    /\ trafficMessage' = {}
    /\ etaDisplay' = {}
    /\ etaBtnDisabled' = TRUE
    /\ UNCHANGED <<cityDetails, recommendationsList, loadingOverlay>>

\* What updateCityInfoDisplay(city, trafficData) assigns.
updateCityInfoDisplay(city, trafficData) ==
    /\ selectedCityInfo' = "block"
    /\ cityDetails' = {[city |-> city, traffic |-> trafficData]}
    /\ IF trafficData # {}
       THEN /\ trafficLevel' = {[src |-> "traffic", city |-> d.city, req |-> d.req] :
                                   d \in trafficData}
            /\ trafficMessage' = {[src |-> "traffic", city |-> city, req |-> d.req] :
                                   d \in trafficData}
       ELSE UNCHANGED <<trafficLevel, trafficMessage>>

\* Lines 221-230 and 237 of handleCitySelection: the ETA button follows the
\* user location, the loading overlay is hidden.
finishCitySelection ==
    /\ etaBtnDisabled' = (userLocation = {})
    /\ loadingOverlay' = FALSE

\* handleCitySelection(cityId) up to the await of the traffic fetch.
handleCitySelection(cityId) ==
    IF cityId \notin KnownCities
    THEN /\ clearCitySelection
         /\ UNCHANGED <<formVars, mapVars, flightVars, seqVars, etaReturn, predictReturn, sideVars>>
    ELSE /\ currentCityId' = cityId
         /\ currentCityData' = cityId
         /\ UNCHANGED <<sideVars, clearedOverlay>>
         /\ IF ~map
            THEN \* showCityTraffic returns at once: no fetch, no data
                 /\ finishCitySelection
                 /\ UNCHANGED <<currentTrafficData, selectedCityInfo, cityDetails,
                                trafficLevel, trafficMessage, recommendationsList,
                                etaDisplay, formVars, mapVars, flightVars, seqVars,
                                etaReturn, predictReturn>>
            ELSE /\ trafficSeq < MaxTrafficFetches
                 /\ loadingOverlay' = TRUE
                 /\ layers' = layers \ currentTrafficMarker
                 /\ currentTrafficMarker' = {}
                 /\ trafficSeq' = trafficSeq + 1
                 /\ trafficFetches' = trafficFetches \cup
                                         {[id |-> trafficSeq + 1, city |-> cityId]}
                 /\ UNCHANGED <<currentTrafficData, selectedCityInfo, cityDetails,
                                trafficLevel, trafficMessage, recommendationsList,
                                etaDisplay, etaBtnDisabled, formVars, map,
                                mapInitialized, userLocation, userMarker, routeLayer,
                                destinationMarker, predictionFetches, etaFetches,
                                geoRequests, timers, predictionSeq, etaSeq, locateSeq,
                                etaReturn, predictReturn>>

\* deselectCity hiding the all-cities overlay as well.
deselectCityHidesOverlay ==
    /\ clearCitySelection
    /\ layers' = layers \ UNION {g.markers : g \in allCitiesLayer}
    /\ allCitiesLayer' = {}
    /\ cityMarkers' = {}
    /\ UNCHANGED <<formVars, map, mapInitialized, userLocation, userMarker,
                   currentTrafficMarker, routeLayer, destinationMarker, flightVars,
                   seqVars, etaReturn, predictReturn, showAllCities, overlayRuns, overlaySeq,
                   locationStatus, utilVars>>

\* deselectCity forgetting the user location with the selection.
deselectCityForgetsLocation ==
    /\ clearCitySelection
    /\ userLocation' = {}
    /\ UNCHANGED <<formVars, map, mapInitialized, userMarker, currentTrafficMarker,
                   routeLayer, destinationMarker, layers, flightVars, seqVars,
                   etaReturn, predictReturn, sideVars>>

\* The change handler of the city <select> with the empty value.
deselectCity ==
    /\ clearCitySelection
    /\ UNCHANGED <<formVars, mapVars, flightVars, seqVars, etaReturn, predictReturn, sideVars>>

\* The traffic fetch of request r answers with success=true: the rest of
\* showCityTraffic (lines 308-363), then the rest of handleCitySelection.
trafficLoaded(r) ==
    LET data == [city |-> r.city, req |-> r.id]
        marker == Layer("selected", r.city, r.id)
    IN  /\ currentTrafficMarker' = {marker}
        /\ layers' = layers \cup {marker}
        /\ currentTrafficData' = {data}
        /\ updateCityInfoDisplay(r.city, {data})
        /\ finishCitySelection
        /\ UNCHANGED <<currentCityId, currentCityData, recommendationsList, etaDisplay>>

\* trafficFailed leaving the loading overlay shown.
trafficFailedKeepsLoading(r) ==
    /\ etaBtnDisabled' = (userLocation = {})
    /\ UNCHANGED <<appVars, selectedCityInfo, cityDetails, trafficLevel,
                   trafficMessage, recommendationsList, etaDisplay,
                   currentTrafficMarker, layers, loadingOverlay>>

\* The traffic fetch of request r fails (success=false, or the fetch or the
\* parsing throws): showCityTraffic returns null (lines 364-373), and
\* handleCitySelection skips the block under `if (trafficData)`.
trafficFailed(r) ==
    /\ finishCitySelection
    /\ UNCHANGED <<appVars, selectedCityInfo, cityDetails, trafficLevel,
                   trafficMessage, recommendationsList, etaDisplay,
                   currentTrafficMarker, layers>>

trafficResponse(r, response) ==
    /\ r \in trafficFetches
    /\ trafficFetches' = trafficFetches \ {r}
    /\ IF response = "success" THEN trafficLoaded(r) ELSE trafficFailed(r)
    /\ UNCHANGED <<formVars, map, mapInitialized, userLocation, userMarker,
                   routeLayer, destinationMarker, predictionFetches, etaFetches,
                   geoRequests, timers, seqVars, etaReturn, predictReturn>>
    /\ UNCHANGED <<sideVars, clearedOverlay>>

\* ------------------------------------------------------------ the form
\* The user moves the hour slider or picks a day or a weather.
inputHour(h) ==
    /\ formHour' = h
    /\ UNCHANGED <<formDay, formWeather, now, appVars, domVars, mapVars, flightVars,
                   seqVars, etaReturn, predictReturn>>
    /\ UNCHANGED <<sideVars, clearedOverlay>>

changeDay(d) ==
    /\ formDay' = d
    /\ UNCHANGED <<formHour, formWeather, now, appVars, domVars, mapVars, flightVars,
                   seqVars, etaReturn, predictReturn>>
    /\ UNCHANGED <<sideVars, clearedOverlay>>

changeWeather(w) ==
    /\ formWeather' = w
    /\ UNCHANGED <<formHour, formDay, now, appVars, domVars, mapVars, flightVars,
                   seqVars, etaReturn, predictReturn>>
    /\ UNCHANGED <<sideVars, clearedOverlay>>

\* updateFormWithCurrentTime putting the calendar day into the form as it
\* is, without the conversion of line 175.
updateFormWithCurrentTimeUnrotated(currentHour, currentDay) ==
    /\ now' = {[hour |-> currentHour, day |-> currentDay]}
    /\ formHour' = currentHour
    /\ formDay' = currentDay
    /\ UNCHANGED formWeather

\* What updateFormWithCurrentTime assigns when the clock reads hour
\* currentHour of calendar day currentDay (0 = Sunday).
updateFormWithCurrentTime(currentHour, currentDay) ==
    /\ now' = {[hour |-> currentHour, day |-> currentDay]}
    /\ formHour' = currentHour
    /\ formDay' = systemDay(currentDay)
    /\ UNCHANGED formWeather

\* ----------------------------------------------------------- prediction
\* The body predictTraffic posts to /api/traffic-prediction.
predictionBody == [hour |-> formHour, day |-> formDay, city |-> currentCityId,
                   weather |-> formWeather]

\* predictTraffic without the check of the selected city.
predictTrafficUnguarded ==
    /\ predictionSeq < MaxPredictions
    /\ UNCHANGED predictReturn
    /\ loadingOverlay' = TRUE
    /\ predictionSeq' = predictionSeq + 1
    /\ predictionFetches' = predictionFetches \cup
           {[id |-> predictionSeq + 1, body |-> predictionBody]}
    /\ UNCHANGED <<selectedCityInfo, cityDetails, trafficLevel, trafficMessage,
                   recommendationsList, etaDisplay, etaBtnDisabled>>

\* predictTraffic() up to the await of the fetch (lines 364-381).
predictTraffic ==
    IF currentCityId = NULL
    THEN /\ predictReturn' = {[req |-> 0, response |-> "none",
                                settled |-> "fulfilled"]}
         /\ UNCHANGED <<domVars, predictionFetches, predictionSeq>>
    ELSE /\ predictionSeq < MaxPredictions
         /\ UNCHANGED predictReturn
         /\ loadingOverlay' = TRUE
         /\ predictionSeq' = predictionSeq + 1
         /\ predictionFetches' = predictionFetches \cup
                {[id |-> predictionSeq + 1, body |-> predictionBody]}
         /\ UNCHANGED <<selectedCityInfo, cityDetails, trafficLevel, trafficMessage,
                        recommendationsList, etaDisplay, etaBtnDisabled>>

\* A click on the Predict button.
clickPredict ==
    /\ predictTraffic
    /\ UNCHANGED <<appVars, formVars, mapVars, trafficFetches, etaFetches,
                   geoRequests, timers, trafficSeq, etaSeq, locateSeq, etaReturn>>
    /\ UNCHANGED <<sideVars, clearedOverlay>>

\* quickPredict(): the form takes the clock's time, predictTraffic is put
\* on a 100 ms timer.
quickPredict(currentHour, currentDay) ==
    /\ timers < MaxTimers
    /\ updateFormWithCurrentTime(currentHour, currentDay)
    /\ timers' = timers + 1
    /\ UNCHANGED <<appVars, domVars, mapVars, trafficFetches, predictionFetches,
                   etaFetches, geoRequests, seqVars, etaReturn, predictReturn>>
    /\ UNCHANGED <<sideVars, clearedOverlay>>

\* A timer of quickPredict fires.
timerFires ==
    /\ timers > 0
    /\ timers' = timers - 1
    /\ predictTraffic
    /\ UNCHANGED <<appVars, formVars, mapVars, trafficFetches, etaFetches,
                   geoRequests, trafficSeq, etaSeq, locateSeq, etaReturn>>
    /\ UNCHANGED <<sideVars, clearedOverlay>>

\* What updatePredictionResults(data) assigns for the response of request
\* r; recs tells whether data.recommendations is non-empty.
updatePredictionResults(r, recs) ==
    /\ trafficLevel' = {[src |-> "prediction", city |-> r.body.city, req |-> r.id]}
    /\ trafficMessage' = {[src |-> "prediction", city |-> r.body.city, req |-> r.id]}
    /\ recommendationsList' = IF recs THEN {r.id} ELSE recommendationsList

\* predictionResponse without the catch and the finally of predictTraffic:
\* a failing fetch or parse rejects the promise of the call and leaves the
\* loading overlay displayed.
predictionResponseUncaught(r, response, recs) ==
    /\ r \in predictionFetches
    /\ predictionFetches' = predictionFetches \ {r}
    /\ IF response = "success"
       THEN updatePredictionResults(r, recs)
       ELSE UNCHANGED <<trafficLevel, trafficMessage, recommendationsList>>
    /\ loadingOverlay' = IF response = "error" THEN loadingOverlay ELSE FALSE
    /\ predictReturn' = {[req |-> r.id, response |-> response,
                           settled |-> IF response = "error" THEN "rejected"
                                       ELSE "fulfilled"]}
    /\ UNCHANGED <<appVars, selectedCityInfo, cityDetails, etaDisplay, etaBtnDisabled,
                   formVars, mapVars, trafficFetches, etaFetches, geoRequests, timers,
                   seqVars, etaReturn>>
    /\ UNCHANGED <<sideVars, clearedOverlay>>

\* The response of prediction request r arrives (lines 383-396): on
\* success=true the results are shown; on success=false or a thrown error
\* only a notification is shown (the catch of line 391 takes every
\* exception of the try block).  The overlay is hidden in all cases (the
\* finally of line 394) and the call returns.
predictionResponse(r, response, recs) ==
    /\ r \in predictionFetches
    /\ predictionFetches' = predictionFetches \ {r}
    /\ IF response = "success"
       THEN updatePredictionResults(r, recs)
       ELSE UNCHANGED <<trafficLevel, trafficMessage, recommendationsList>>
    /\ loadingOverlay' = FALSE
    /\ predictReturn' = {[req |-> r.id, response |-> response,
                           settled |-> "fulfilled"]}
    /\ UNCHANGED <<appVars, selectedCityInfo, cityDetails, etaDisplay, etaBtnDisabled,
                   formVars, mapVars, trafficFetches, etaFetches, geoRequests, timers,
                   seqVars, etaReturn>>
    /\ UNCHANGED <<sideVars, clearedOverlay>>

\* ------------------------------------------------------------- location
\* Positions the device may report, and the default of line 417.
Positions == {"P1"}
Tunis == "Tunis"

\* updateUserLocationMarker() for the location loc set by locate request n.
updateUserLocationMarker(loc, n) ==
    IF map
    THEN /\ userMarker' = {Layer("user", loc.pos, n)}
         /\ layers' = (layers \ userMarker) \cup {Layer("user", loc.pos, n)}
    ELSE UNCHANGED <<userMarker, layers>>

\* locateUser() up to the call of getCurrentPosition (lines 377-387).
locateUser ==
    /\ locateSeq < MaxLocates
    /\ locateSeq' = locateSeq + 1
    /\ geoRequests' = geoRequests \cup {locateSeq + 1}
    /\ loadingOverlay' = TRUE
    /\ UNCHANGED <<appVars, selectedCityInfo, cityDetails, trafficLevel,
                   trafficMessage, recommendationsList, etaDisplay, etaBtnDisabled,
                   formVars, mapVars, trafficFetches, predictionFetches, etaFetches,
                   timers, trafficSeq, predictionSeq, etaSeq, etaReturn, predictReturn>>
    /\ UNCHANGED <<sideVars, clearedOverlay>>

\* The success callback of getCurrentPosition (lines 388-408).
locateSuccess(n, pos) ==
    /\ n \in geoRequests
    /\ geoRequests' = geoRequests \ {n}
    /\ userLocation' = {[pos |-> pos, accuracy |-> TRUE]}
    /\ updateUserLocationMarker([pos |-> pos, accuracy |-> TRUE], n)
    /\ etaBtnDisabled' = FALSE
    /\ loadingOverlay' = FALSE
    /\ UNCHANGED <<appVars, selectedCityInfo, cityDetails, trafficLevel,
                   trafficMessage, recommendationsList, etaDisplay, formVars, map,
                   mapInitialized, currentTrafficMarker, routeLayer,
                   destinationMarker, trafficFetches, predictionFetches, etaFetches,
                   timers, seqVars, etaReturn, predictReturn>>
    /\ UNCHANGED <<sideVars, clearedOverlay>>

\* The error callback of getCurrentPosition (lines 409-423); denied tells
\* whether error.code is PERMISSION_DENIED.
locateError(n, denied) ==
    /\ n \in geoRequests
    /\ geoRequests' = geoRequests \ {n}
    /\ IF denied
       THEN UNCHANGED <<userLocation, userMarker, layers>>
       ELSE /\ userLocation' = {[pos |-> Tunis, accuracy |-> FALSE]}
            /\ updateUserLocationMarker([pos |-> Tunis, accuracy |-> FALSE], n)
    /\ loadingOverlay' = FALSE
    /\ UNCHANGED <<appVars, selectedCityInfo, cityDetails, trafficLevel,
                   trafficMessage, recommendationsList, etaDisplay, etaBtnDisabled,
                   formVars, map, mapInitialized, currentTrafficMarker, routeLayer,
                   destinationMarker, trafficFetches, predictionFetches, etaFetches,
                   timers, seqVars, etaReturn, predictReturn>>
    /\ UNCHANGED <<sideVars, clearedOverlay>>

\* ------------------------------------------------------------ ETA, route
\* `parseInt(v) || other` of lines 500-503: 0 counts as missing.
orElse(v, other) == IF v = 0 THEN other ELSE v

\* The hour, day and weather of the body posted to /api/calculate-eta
\* (lines 500-513) when the clock reads currentHour, currentDay.
etaHour(currentHour) == orElse(formHour, currentHour)
etaDay(currentDay) == systemDay(orElse(formDay, currentDay))
etaWeather == orElse(formWeather, 0)

\* etaGuard without its first early return.
etaGuardCityOnly(cityId) == cityId \in KnownCities

\* The two early returns of TrafficMap.calculateETA (lines 486-495).
etaGuard(cityId) == userLocation # {} /\ cityId \in KnownCities

\* TrafficMap.calculateETA(cityId) up to the await of the fetch; viaApp
\* tells whether App.calculateETA is awaiting the result.
calculateETA(cityId, viaApp, currentHour, currentDay) ==
    IF ~etaGuard(cityId)
    THEN /\ etaReturn' = {[cityId |-> cityId, req |-> 0, response |-> "none",
                            value |-> "null"]}
         /\ UNCHANGED <<appVars, domVars, formVars, mapVars, flightVars, seqVars>>
         /\ UNCHANGED <<sideVars, clearedOverlay, predictReturn>>
    ELSE /\ etaSeq < MaxEtaRequests
         /\ UNCHANGED <<sideVars, clearedOverlay>>
         /\ loadingOverlay' = TRUE
         /\ etaSeq' = etaSeq + 1
         /\ etaFetches' = etaFetches \cup
               {[id |-> etaSeq + 1, origin |-> userLocation, city |-> cityId,
                 hour |-> etaHour(currentHour), day |-> etaDay(currentDay),
                 weather |-> etaWeather, viaApp |-> viaApp]}
         /\ UNCHANGED <<appVars, selectedCityInfo, cityDetails, trafficLevel,
                        trafficMessage, recommendationsList, etaDisplay,
                        etaBtnDisabled, formVars, mapVars, trafficFetches,
                        predictionFetches, geoRequests, timers, trafficSeq,
                        predictionSeq, locateSeq, etaReturn, predictReturn>>

\* App.calculateETA(): a click on the Calculate ETA button.
appCalculateETA(currentHour, currentDay) ==
    /\ currentCityId # NULL
    /\ calculateETA(currentCityId, TRUE, currentHour, currentDay)

\* clearRoute leaving the polyline on the map.
clearRouteKeepsLine == layers \ destinationMarker

\* What clearRoute (lines 604-613) leaves on the map.
clearRoute == layers \ (routeLayer \cup destinationMarker)

\* drawRoute putting the destination marker on the map also when the
\* route has no coordinates.
drawRouteAlwaysMarks(r, coords) ==
    IF ~map
    THEN UNCHANGED <<routeLayer, destinationMarker, layers>>
    ELSE /\ routeLayer' = IF coords THEN {Layer("route", r.city, r.id)} ELSE {}
         /\ destinationMarker' = {Layer("destination", r.city, r.id)}
         /\ layers' = clearRoute \cup routeLayer' \cup destinationMarker'

\* drawRoute(data.route, data.city) for the response of request r; coords
\* tells whether route.coordinates is non-empty.
drawRoute(r, coords) ==
    IF ~map
    THEN UNCHANGED <<routeLayer, destinationMarker, layers>>
    ELSE IF coords
         THEN /\ routeLayer' = {Layer("route", r.city, r.id)}
              /\ destinationMarker' = {Layer("destination", r.city, r.id)}
              /\ layers' = clearRoute \cup {Layer("route", r.city, r.id),
                                            Layer("destination", r.city, r.id)}
         ELSE /\ routeLayer' = {}
              /\ destinationMarker' = {}
              /\ layers' = clearRoute

\* etaFailed drawing the route the request asked for all the same.
etaFailedDrawsRoute(r, response) ==
    /\ etaReturn' = {[cityId |-> r.city, req |-> r.id, response |-> response,
                       value |-> "null"]}
    /\ drawRoute(r, TRUE)
    /\ UNCHANGED etaDisplay

\* The ETA request r fails: success=false, or the fetch or the parsing
\* throws (lines 525-533).  calculateETA returns null.
etaFailed(r, response) ==
    /\ etaReturn' = {[cityId |-> r.city, req |-> r.id, response |-> response,
                       value |-> "null"]}
    /\ UNCHANGED <<routeLayer, destinationMarker, layers, etaDisplay>>

\* The ETA request r succeeds (lines 519-524), then the rest of
\* App.calculateETA when it is the caller (lines 460-467).
etaSucceeded(r, coords) ==
    /\ drawRoute(r, coords)
    /\ etaReturn' = {[cityId |-> r.city, req |-> r.id, response |-> "success",
                       value |-> "data"]}
    /\ etaDisplay' = IF r.viaApp THEN {r.id} ELSE etaDisplay

etaResponse(r, response, coords) ==
    /\ r \in etaFetches
    /\ etaFetches' = etaFetches \ {r}
    /\ IF response = "success" THEN etaSucceeded(r, coords) ELSE etaFailed(r, response)
    /\ loadingOverlay' = FALSE
    /\ UNCHANGED <<appVars, selectedCityInfo, cityDetails, trafficLevel,
                   trafficMessage, recommendationsList, etaBtnDisabled, formVars,
                   map, mapInitialized, userLocation, userMarker,
                   currentTrafficMarker, trafficFetches, predictionFetches,
                   geoRequests, timers, seqVars>>
    /\ UNCHANGED <<sideVars, clearedOverlay, predictReturn>>

\* ------------------------------------------------ the all-cities overlay
\* Object.entries(window.appData.cities): the keys, in ascending order.
CityOrder == <<"0", "1">>

\* The overlay markers that are on the map.
overlayMarkers == {l \in layers : l.kind = "overlay"}

\* What hideAllCities() assigns (lines 277-285): removing the layer group
\* from the map removes the markers it holds.
hideAllCities ==
    /\ layers' = layers \ UNION {g.markers : g \in allCitiesLayer}
    /\ allCitiesLayer' = {}
    /\ cityMarkers' = {}

\* showAllCitiesOnMap() up to the await of its first fetch (lines 227-239).
showAllCitiesOnMap ==
    IF ~map
    THEN UNCHANGED <<layers, allCitiesLayer, cityMarkers, overlayRuns, overlaySeq>>
    ELSE /\ overlaySeq < MaxOverlayRuns
         /\ hideAllCities
         /\ overlaySeq' = overlaySeq + 1
         /\ overlayRuns' = overlayRuns \cup
                {[id |-> overlaySeq + 1, next |-> 1, markers |-> {},
                  outcomes |-> <<>>]}

\* toggleAllCities(): a click on the cities control of the map, or a call
\* of the public method (lines 214-224).
toggleAllCities ==
    /\ showAllCities' = ~showAllCities
    /\ IF ~showAllCities
       THEN showAllCitiesOnMap
       ELSE /\ hideAllCities
            /\ UNCHANGED <<overlayRuns, overlaySeq>>
    /\ UNCHANGED <<appVars, domVars, formVars, map, mapInitialized, userLocation,
                   userMarker, currentTrafficMarker, routeLayer, destinationMarker,
                   flightVars, seqVars, etaReturn, predictReturn, clearedOverlay, locationStatus,
                   utilVars>>

\* overlayResponse with the try around the loop instead of inside it: the
\* first failing fetch ends the loop, no marker is made for the cities
\* after it and no layer group is made.
overlayResponseAborts(r, response) ==
    LET cityId == CityOrder[r.next]
        marker == Layer("overlay", cityId, r.id)
        made == IF response = "success" THEN {marker} ELSE {}
        markers == r.markers \cup made
        outcomes == Append(r.outcomes, response)
    IN  /\ r \in overlayRuns
        /\ cityMarkers' = IF response = "success"
                          THEN {m \in cityMarkers : m.city # cityId} \cup made
                          ELSE cityMarkers
        /\ IF response # "success"
           THEN /\ overlayRuns' = overlayRuns \ {r}
                /\ UNCHANGED <<layers, allCitiesLayer>>
           ELSE IF r.next < Len(CityOrder)
           THEN /\ overlayRuns' = (overlayRuns \ {r}) \cup
                      {[id |-> r.id, next |-> r.next + 1, markers |-> markers,
                        outcomes |-> outcomes]}
                /\ layers' = layers \cup made
                /\ UNCHANGED allCitiesLayer
           ELSE /\ overlayRuns' = overlayRuns \ {r}
                /\ layers' = layers \cup markers
                /\ allCitiesLayer' = {[id |-> r.id, markers |-> markers,
                                        outcomes |-> outcomes]}
        /\ UNCHANGED <<appVars, domVars, formVars, map, mapInitialized, userLocation,
                       userMarker, currentTrafficMarker, routeLayer, destinationMarker,
                       flightVars, seqVars, etaReturn, predictReturn, showAllCities,
                       overlaySeq, clearedOverlay, locationStatus, utilVars>>

\* The fetch of run r of showAllCitiesOnMap for the city it is at answers
\* (lines 240-270): on success=true a marker is put on the map, pushed on
\* the run's list and stored in cityMarkers; then the loop fetches for the
\* next city, or, after the last one, the layer group is made of the run's
\* markers, added to the map and stored in allCitiesLayer (line 273).
overlayResponse(r, response) ==
    LET cityId == CityOrder[r.next]
        marker == Layer("overlay", cityId, r.id)
        made == IF response = "success" THEN {marker} ELSE {}
        markers == r.markers \cup made
        outcomes == Append(r.outcomes, response)
    IN  /\ r \in overlayRuns
        /\ cityMarkers' = IF response = "success"
                          THEN {m \in cityMarkers : m.city # cityId} \cup made
                          ELSE cityMarkers
        /\ IF r.next < Len(CityOrder)
           THEN /\ overlayRuns' = (overlayRuns \ {r}) \cup
                      {[id |-> r.id, next |-> r.next + 1, markers |-> markers,
                        outcomes |-> outcomes]}
                /\ layers' = layers \cup made
                /\ UNCHANGED allCitiesLayer
           ELSE /\ overlayRuns' = overlayRuns \ {r}
                /\ layers' = layers \cup markers
                /\ allCitiesLayer' = {[id |-> r.id, markers |-> markers,
                                        outcomes |-> outcomes]}
        /\ UNCHANGED <<appVars, domVars, formVars, map, mapInitialized, userLocation,
                       userMarker, currentTrafficMarker, routeLayer, destinationMarker,
                       flightVars, seqVars, etaReturn, predictReturn, showAllCities, overlaySeq,
                       clearedOverlay, locationStatus, utilVars>>

\* -------------------------------------------------------- Utils.debounce
\* Arguments the debounced function is called with.
DebounceArgs == {"a", "b", "c"}

\* executedFunction without its clearTimeout: every call leaves the timers
\* of the earlier calls pending.
executedFunctionKeepsTimers(args) ==
    /\ Len(calls) < MaxDebounceCalls
    /\ calls' = Append(calls, args)
    /\ debounceTimers' = debounceTimers \cup {[id |-> Len(calls) + 1, args |-> args]}
    /\ timeout' = Len(calls) + 1
    /\ UNCHANGED <<invoked, validateVars, pureVars, popup, clientVars, overlayVars, clearedOverlay,
                   locationStatus>>

\* executedFunction(...args): a call of the function made by debounce
\* (lines 249-256): clearTimeout(timeout), then timeout = setTimeout(later,
\* wait).  The timer of the call number n has the id n.
executedFunction(args) ==
    /\ Len(calls) < MaxDebounceCalls
    /\ calls' = Append(calls, args)
    /\ debounceTimers' = {t \in debounceTimers : t.id # timeout} \cup
                             {[id |-> Len(calls) + 1, args |-> args]}
    /\ timeout' = Len(calls) + 1
    /\ UNCHANGED <<invoked, validateVars, pureVars, popup, clientVars, overlayVars, clearedOverlay,
                   locationStatus>>

\* later(): the timer t fires, wait after the call that set it (lines
\* 250-253): clearTimeout(timeout), then func(...args).
later(t) ==
    /\ t \in debounceTimers
    /\ debounceTimers' = {u \in debounceTimers : u # t /\ u.id # timeout}
    /\ invoked' = Append(invoked, [args |-> t.args, after |-> Len(calls)])
    /\ UNCHANGED <<timeout, calls, validateVars, pureVars, popup, clientVars, overlayVars,
                   clearedOverlay, locationStatus>>

\* The calls made since func was last invoked: the burst in progress.
burst ==
    LET from == IF invoked = <<>> THEN 0 ELSE invoked[Len(invoked)].after
    IN  SubSeq(calls, from + 1, Len(calls))

\* ------------------------------------------ part_000, the other TrafficMap
\* The keys of the city table of part_000, the cities validateForm admits.
tunisiaCities == 0 .. 3

\* The codes a geolocation error carries.
GeoErrors == {"PERMISSION_DENIED", "POSITION_UNAVAILABLE", "TIMEOUT"}

\* zoomToUserLocation() of part_000 (lines 226-257) for the location loc
\* set by locate request n.
zoomToUserLocation(loc, n) ==
    IF map
    THEN /\ userMarker' = {Layer("user", loc.pos, n)}
         /\ layers' = (layers \ userMarker) \cup {Layer("user", loc.pos, n)}
    ELSE UNCHANGED <<userMarker, layers>>

\* locateUser() of part_000 up to the call of getCurrentPosition (lines
\* 157-171).
locateUser_part000 ==
    /\ locateSeq < MaxLocates
    /\ locateSeq' = locateSeq + 1
    /\ geoRequests' = geoRequests \cup {locateSeq + 1}
    /\ locationStatus' = "Detecting your location..."
    /\ UNCHANGED <<appVars, domVars, formVars, mapVars, trafficFetches,
                   predictionFetches, etaFetches, timers, trafficSeq, predictionSeq,
                   etaSeq, etaReturn, predictReturn, overlayVars, clearedOverlay, utilVars>>

\* The success callback of part_000 (lines 173-188); findNearestCity
\* writes nothing and its result is dropped.
locateSuccess_part000(n, pos) ==
    /\ n \in geoRequests
    /\ geoRequests' = geoRequests \ {n}
    /\ userLocation' = {[pos |-> pos, accuracy |-> TRUE]}
    /\ locationStatus' = "Location detected successfully"
    /\ zoomToUserLocation([pos |-> pos, accuracy |-> TRUE], n)
    /\ UNCHANGED <<appVars, domVars, formVars, map, mapInitialized,
                   currentTrafficMarker, routeLayer, destinationMarker,
                   trafficFetches, predictionFetches, etaFetches, timers, seqVars,
                   etaReturn, predictReturn, overlayVars, clearedOverlay, utilVars>>

\* The error callback of part_000 (lines 190-215) for the error code: the
\* message depends on the code, the default location does not.
locateError_part000(n, code) ==
    /\ n \in geoRequests
    /\ geoRequests' = geoRequests \ {n}
    /\ locationStatus' =
          IF code = "PERMISSION_DENIED"
          THEN "Location detection failed. Please enable location permissions."
          ELSE IF code = "POSITION_UNAVAILABLE"
          THEN "Location detection failed. Location information unavailable."
          ELSE "Location detection failed. Location request timed out."
    /\ userLocation' = {[pos |-> Tunis, accuracy |-> FALSE]}
    /\ zoomToUserLocation([pos |-> Tunis, accuracy |-> FALSE], n)
    /\ UNCHANGED <<appVars, domVars, formVars, map, mapInitialized,
                   currentTrafficMarker, routeLayer, destinationMarker,
                   trafficFetches, predictionFetches, etaFetches, timers, seqVars,
                   etaReturn, predictReturn, overlayVars, clearedOverlay, utilVars>>

\* Traffic levels updateTrafficMarker is called with: the levels that have
\* an icon, and one that has none.
TrafficLevels == {0, 1, 2, 5}

\* table[key] of JavaScript put into a template literal or before ||: the
\* entry, "undefined" when the table has no such key.
undefined == "undefined"
lookup(table, key) == IF key \in DOMAIN table THEN table[key] ELSE undefined
\* value || fallback for the strings of the tables, none of them empty.
or(value, fallback) == IF value = undefined THEN fallback ELSE value

\* The tables of part_000 by traffic level: trafficColors (lines 23-27),
\* trafficLabels and trafficMessages (lines 376-381).
trafficColors == [l \in 0 .. 2 |-> <<"#28a745", "#ffc107", "#dc3545">>[l + 1]]
trafficLabels == [l \in 0 .. 2 |-> <<"Low", "Medium", "High">>[l + 1]]
trafficMessages ==
    [l \in 0 .. 2 |-> <<"Traffic is flowing smoothly", "Moderate traffic expected",
                        "Heavy traffic detected">>[l + 1]]

\* The popup of updateTrafficMarker (lines 383-407) for a level: the
\* colour is put in as it is looked up, label and message have a fallback.
bindPopup(cityId, level) ==
    [city |-> cityId, trafficLevel |-> level,
     colour |-> lookup(trafficColors, level),
     label |-> or(lookup(trafficLabels, level), "Unknown"),
     message |-> or(lookup(trafficMessages, level), "No traffic data available")]

\* updateTrafficMarker(cityId, trafficLevel) of part_000 (lines 295-412):
\* the marker takes the icon of the level, or that of level 0.
updateTrafficMarker(cityId, level) ==
    /\ IF map /\ cityId \in tunisiaCities
       THEN LET icon == IF level \in {0, 1, 2} THEN level ELSE 0
                marker == Layer("traffic", ToString(cityId), icon)
            IN  /\ currentTrafficMarker' = {marker}
                /\ layers' = (layers \ currentTrafficMarker) \cup {marker}
                /\ popup' = {bindPopup(cityId, level)}
       ELSE UNCHANGED <<currentTrafficMarker, layers, popup>>
    /\ UNCHANGED <<appVars, domVars, formVars, map, mapInitialized, userLocation,
                   userMarker, routeLayer, destinationMarker, flightVars, seqVars,
                   etaReturn, predictReturn, overlayVars, clearedOverlay, locationStatus,
                   debounceVars, validateVars, pureVars>>

\* The tables of utils.js by traffic level (lines 261-265, 271-275).
loads == [l \in 0 .. 2 |-> <<"10-30%", "40-70%", "75-100%">>[l + 1]]
advisories == [l \in 0 .. 2 |-> <<"Normal", "Caution", "Warning">>[l + 1]]

\* Utils.getTrafficLoad and Utils.getTravelAdvisory (lines 260-277).
getTrafficLoad(level) == or(lookup(loads, level), "Unknown")
getTravelAdvisory(level) == or(lookup(advisories, level), "Normal")

\* A call of Utils.getTrafficLoad, of Utils.getTravelAdvisory.
callGetTrafficLoad(level) ==
    /\ called' = {[fn |-> "getTrafficLoad", trafficLevel |-> level]}
    /\ returned' = {getTrafficLoad(level)}
    /\ UNCHANGED <<debounceVars, validateVars, popup, clientVars, overlayVars,
                   clearedOverlay, locationStatus>>

callGetTravelAdvisory(level) ==
    /\ called' = {[fn |-> "getTravelAdvisory", trafficLevel |-> level]}
    /\ returned' = {getTravelAdvisory(level)}
    /\ UNCHANGED <<debounceVars, validateVars, popup, clientVars, overlayVars,
                   clearedOverlay, locationStatus>>

\* ------------------------------------------------------ FallbackPredictor
\* The fallback predictor is not among the files of src/: it is modelled
\* from section 4.3 of the specification.  Scores are counted in halves, so
\* that +2.5 is 5 and the thresholds 3.5 and 1.5 are 7 and 3.
\* The requests of the model: the hours at the ends of each band and next
\* to them, every day (0 = Monday), a city of each kind, every weather
\* (0 clear, 1 rain, 2 other adverse).
PredictHours == {2, 6, 7, 9, 10, 11, 12, 14, 15, 16, 17, 19, 20}
PredictCities == {"capital", "second", "other"}
PredictionRequests ==
    [hour : PredictHours, day : 0 .. 6, city : PredictCities, weather : 0 .. 2]

timeOfDayHalves(hour) ==
    IF hour >= 7 /\ hour <= 9 THEN 4
    ELSE IF hour >= 16 /\ hour <= 19 THEN 5
    ELSE IF hour >= 12 /\ hour <= 14 THEN 2
    ELSE 0
dayHalves(day) == IF day = 4 THEN 2 ELSE IF day \in {5, 6} THEN 0 - 1 ELSE 0
cityHalves(city) == IF city = "capital" THEN 2 ELSE IF city = "second" THEN 1 ELSE 0
weatherHalves(weather) == IF weather = 1 THEN 2 ELSE IF weather = 2 THEN 1 ELSE 0

\* predict classifying with the thresholds taken as strict.
predictStrictThresholds(request) ==
    LET halves == timeOfDayHalves(request.hour) + dayHalves(request.day)
                    + cityHalves(request.city) + weatherHalves(request.weather)
    IN  [halves |-> halves,
         level |-> IF halves > 7 THEN "High" ELSE IF halves > 3 THEN "Medium" ELSE "Low"]

\* FallbackPredictor.predict(request): the score in halves and the level.
predict(request) ==
    LET halves == timeOfDayHalves(request.hour) + dayHalves(request.day)
                    + cityHalves(request.city) + weatherHalves(request.weather)
    IN  [halves |-> halves,
         level |-> IF halves >= 7 THEN "High" ELSE IF halves >= 3 THEN "Medium" ELSE "Low"]

\* A call of FallbackPredictor.predict.
callPredict(request) ==
    /\ called' = {[fn |-> "predict", request |-> request]}
    /\ returned' = {predict(request)}
    /\ UNCHANGED <<debounceVars, validateVars, popup, clientVars, overlayVars,
                   clearedOverlay, locationStatus>>

\* ------------------------------------------- calculateDistance, part_000
\* The haversine formula in fixed point: angles are whole degrees that are
\* multiples of 15 after halving, sines and cosines are thousandths, `a`
\* is in millionths, and the central angle is found to 30 degrees.
\* Math.sin of an angle in degrees, in thousandths: odd, and symmetric
\* about 90 degrees.
RECURSIVE sin(_)
sin(deg) ==
    IF deg < 0 THEN 0 - sin(0 - deg)
    ELSE IF deg > 90 THEN sin(180 - deg)
    ELSE CASE deg = 0 -> 0 [] deg = 15 -> 259 [] deg = 30 -> 500 [] deg = 45 -> 707
           [] deg = 60 -> 866 [] deg = 75 -> 966 [] deg = 90 -> 1000
cos(deg) == sin(90 - deg)

\* 2 * Math.atan2(Math.sqrt(a), Math.sqrt(1 - a)) in degrees: the largest
\* of the angles 0, 30, ..., 180 whose haversine is at most a.
centralAngle(a) ==
    LET angles == {t \in {30 * k : k \in 0 .. 6} : sin(t \div 2) * sin(t \div 2) <= a}
    IN  CHOOSE t \in angles : \A u \in angles : u <= t

\* R * c in km, c being a multiple of 30 degrees: R = 6371, and 30
\* degrees are 0.5236 radians.
kilometres(c) == (6371 * (c \div 30) * 5236) \div 10000

\* calculateDistance using the cosine of the first latitude twice.
calculateDistanceOneCosine(lat1, lon1, lat2, lon2) ==
    LET dLat == lat2 - lat1
        dLon == lon2 - lon1
        a == sin(dLat \div 2) * sin(dLat \div 2)
               + ((cos(lat1) * cos(lat1)) \div 1000)
                   * ((sin(dLon \div 2) * sin(dLon \div 2)) \div 1000)
    IN  kilometres(centralAngle(a))

\* calculateDistance(lat1, lon1, lat2, lon2) (lines 283-292).
calculateDistance(lat1, lon1, lat2, lon2) ==
    LET dLat == lat2 - lat1
        dLon == lon2 - lon1
        a == sin(dLat \div 2) * sin(dLat \div 2)
               + ((cos(lat1) * cos(lat2)) \div 1000)
                   * ((sin(dLon \div 2) * sin(dLon \div 2)) \div 1000)
    IN  kilometres(centralAngle(a))

\* The coordinates of the model, in degrees.
Latitudes == {0 - 60, 0, 30, 90}
Longitudes == {0 - 150, 0, 60, 180}

\* A call of calculateDistance.
callCalculateDistance(lat1, lon1, lat2, lon2) ==
    /\ called' = {[fn |-> "calculateDistance", lat1 |-> lat1, lon1 |-> lon1,
                   lat2 |-> lat2, lon2 |-> lon2]}
    /\ returned' = {calculateDistance(lat1, lon1, lat2, lon2)}
    /\ UNCHANGED <<debounceVars, validateVars, popup, clientVars, overlayVars,
                   clearedOverlay, locationStatus>>

\* The distances calculateDistance gives in the model, in whole units: any
\* distance from 0 to MaxDistance, so that cities may be at equal distance.
MaxDistance == 1
Distances == [tunisiaCities -> 0 .. MaxDistance]

\* The city tables findNearestCity is run on: the table of part_000 and
\* every table with some of its cities left out, the empty one included.
CityTables == SUBSET tunisiaCities

\* The loop of findNearestCity keeping a city that is as near as the
\* nearest before it.
RECURSIVE forEachCityKeepsLast(_, _, _, _)
forEachCityKeepsLast(cities, distance, id, nearest) ==
    IF id > 3
    THEN nearest
    ELSE forEachCityKeepsLast(cities, distance, id + 1,
             IF id \in cities
                /\ (nearest = {} \/ \E n \in nearest : distance[id] <= n.minDistance)
             THEN {[id |-> id, minDistance |-> distance[id]]}
             ELSE nearest)

\* The loop of findNearestCity (lines 266-272) from the key id on, the
\* keys taken in ascending order as Object.entries gives them.  nearest is
\* {} while nearestCity is null and minDistance is Infinity; distance[id]
\* is what calculateDistance returns for the city id.
RECURSIVE forEachCity(_, _, _, _)
forEachCity(cities, distance, id, nearest) ==
    IF id > 3
    THEN nearest
    ELSE forEachCity(cities, distance, id + 1,
             IF id \in cities
                /\ (nearest = {} \/ \E n \in nearest : distance[id] < n.minDistance)
             THEN {[id |-> id, minDistance |-> distance[id]]}
             ELSE nearest)

\* findNearestCity() of part_000 (lines 260-280) over the table cities, for
\* the user location: the id of the city it returns, {} when it returns
\* null.
findNearestCity(cities, location, distance) ==
    IF location = {}
    THEN {}
    ELSE {n.id : n \in forEachCity(cities, distance, 0, {})}

\* A call of findNearestCity.
callFindNearestCity(cities, distance) ==
    /\ called' = {[fn |-> "findNearestCity", cities |-> cities,
                   userLocation |-> userLocation, distance |-> distance]}
    /\ returned' = findNearestCity(cities, userLocation, distance)
    /\ UNCHANGED <<debounceVars, validateVars, popup, clientVars, overlayVars,
                   clearedOverlay, locationStatus>>

\* ---------------------------------------------------- Utils.validateForm
\* A JavaScript number that is an integer or NaN: {n} for n, {} for NaN.
NaN == {}
isNaN(x) == x = NaN
\* x < n and x > n of JavaScript: false when x is NaN.
less(x, n) == \E v \in x : v < n
greater(x, n) == \E v \in x : v > n

\* The values a field of formData takes in the model: NaN, the value below
\* the range, the ends of the range and the value above it.
FieldValues(last) == {NaN, {0 - 1}, {0}, {last}, {last + 1}}
FormDatas == [hour : FieldValues(23), day : FieldValues(6),
              city : FieldValues(3), weather : FieldValues(2)]

\* validateForm returning after the first error it finds.
validateFormFirstOnly(fd) ==
    IF isNaN(fd.hour) \/ less(fd.hour, 0) \/ greater(fd.hour, 23)
    THEN <<"Hour must be between 0 and 23">>
    ELSE IF isNaN(fd.day) \/ less(fd.day, 0) \/ greater(fd.day, 6)
    THEN <<"Day must be between 0 (Monday) and 6 (Sunday)">>
    ELSE IF isNaN(fd.city) \/ less(fd.city, 0) \/ greater(fd.city, 3)
    THEN <<"City must be between 0 and 3">>
    ELSE IF isNaN(fd.weather) \/ less(fd.weather, 0) \/ greater(fd.weather, 2)
    THEN <<"Weather must be between 0 and 2">>
    ELSE <<>>

\* validateForm(formData): the list of errors it returns (lines 224-244).
validateForm(fd) ==
    (IF isNaN(fd.hour) \/ less(fd.hour, 0) \/ greater(fd.hour, 23)
     THEN <<"Hour must be between 0 and 23">> ELSE <<>>)
    \o (IF isNaN(fd.day) \/ less(fd.day, 0) \/ greater(fd.day, 6)
        THEN <<"Day must be between 0 (Monday) and 6 (Sunday)">> ELSE <<>>)
    \o (IF isNaN(fd.city) \/ less(fd.city, 0) \/ greater(fd.city, 3)
        THEN <<"City must be between 0 and 3">> ELSE <<>>)
    \o (IF isNaN(fd.weather) \/ less(fd.weather, 0) \/ greater(fd.weather, 2)
        THEN <<"Weather must be between 0 and 2">> ELSE <<>>)

\* A call of Utils.validateForm with the argument fd.
callValidateForm(fd) ==
    /\ formData' = {fd}
    /\ errors' = {validateForm(fd)}
    /\ UNCHANGED <<debounceVars, pureVars, popup, clientVars, overlayVars,
                   clearedOverlay, locationStatus>>

\* ------------------------------------------------------- specifications
\* The whole client.
Next ==
    \/ init
    \/ \E cityId \in CityIds : handleCitySelection(cityId)
    \/ deselectCity
    \/ \E r \in trafficFetches, response \in Responses : trafficResponse(r, response)
    \/ \E h \in FormHours : inputHour(h)
    \/ \E d \in FormDays : changeDay(d)
    \/ \E w \in FormWeathers : changeWeather(w)
    \/ clickPredict
    \/ \E h \in ClockHours, d \in ClockDays : quickPredict(h, d)
    \/ timerFires
    \/ \E r \in predictionFetches, response \in Responses, recs \in BOOLEAN :
          predictionResponse(r, response, recs)
    \/ locateUser
    \/ \E n \in geoRequests, pos \in Positions : locateSuccess(n, pos)
    \/ \E n \in geoRequests, denied \in BOOLEAN : locateError(n, denied)
    \/ \E h \in ClockHours, d \in ClockDays : appCalculateETA(h, d)
    \/ \E cityId \in CityIds \cup {NULL}, h \in ClockHours, d \in ClockDays :
          calculateETA(cityId, FALSE, h, d)
    \/ \E r \in etaFetches, response \in Responses, coords \in BOOLEAN :
          etaResponse(r, response, coords)
    \/ toggleAllCities
    \/ \E r \in overlayRuns, response \in Responses : overlayResponse(r, response)
    \/ \E args \in DebounceArgs : executedFunction(args)
    \/ \E t \in debounceTimers : later(t)
    \/ \E fd \in FormDatas : callValidateForm(fd)

Spec == Init /\ [][Next]_vars

\* The selected-city slot: the user selects and deselects cities.
NextSelection ==
    \/ init
    \/ \E cityId \in CityIds : handleCitySelection(cityId)
    \/ deselectCity
    \/ \E r \in trafficFetches, response \in Responses : trafficResponse(r, response)

SpecSelection == Init /\ [][NextSelection]_vars

\* Selections only, of known and unknown cities, on the map or before it
\* is there: the selection is never emptied by hand.
NextUnknownCity ==
    \/ init
    \/ \E cityId \in CityIds : handleCitySelection(cityId)
    \/ \E r \in trafficFetches, response \in Responses : trafficResponse(r, response)

SpecUnknownCity == Init /\ [][NextUnknownCity]_vars

\* TrafficMap.init is called again and again, while the user selects
\* cities and locates themself, which puts markers on the map.
NextInit ==
    \/ init
    \/ initAgain
    \/ \E cityId \in KnownCities : handleCitySelection(cityId)
    \/ \E r \in trafficFetches, response \in Responses : trafficResponse(r, response)
    \/ locateUser
    \/ \E n \in geoRequests, pos \in Positions : locateSuccess(n, pos)
    \/ \E n \in geoRequests, denied \in BOOLEAN : locateError(n, denied)

SpecInit == Init /\ [][NextInit]_vars

\* The prediction slot: the user selects cities and asks for predictions.
\* TrafficMap.init is left out: this is the client whose map is not (or not
\* yet) there, where showCityTraffic returns at once and a selection issues
\* no fetch.  No action of the prediction slot reads the map.
NextPrediction ==
    \/ \E cityId \in CityIds : handleCitySelection(cityId)
    \/ deselectCity
    \/ clickPredict
    \/ \E h \in ClockHours, d \in ClockDays : quickPredict(h, d)
    \/ timerFires
    \/ \E r \in predictionFetches, response \in Responses, recs \in BOOLEAN :
          predictionResponse(r, response, recs)

SpecPrediction == Init /\ [][NextPrediction]_vars

\* The states reached from Init by handleCitySelection before the map is
\* initialised: a city is selected or none is, and nothing else has changed.
InitRoute == \E cityId \in KnownCities \cup {NULL} : Start(cityId, {}, 0)

\* The route slot: with a city selected or not, the user locates themself
\* and asks for the ETA.  handleCitySelection and the traffic responses are
\* left out: they write none of the variables calculateETA, drawRoute and
\* the geolocation callbacks read or write, but the selected city, whose
\* values InitRoute and deselectCity cover.
NextRoute ==
    \/ init
    \/ deselectCity
    \/ locateUser
    \/ \E n \in geoRequests, pos \in Positions : locateSuccess(n, pos)
    \/ \E n \in geoRequests, denied \in BOOLEAN : locateError(n, denied)
    \/ \E h \in ClockHours, d \in ClockDays : appCalculateETA(h, d)
    \/ \E cityId \in CityIds \cup {NULL}, h \in ClockHours, d \in ClockDays :
          calculateETA(cityId, FALSE, h, d)
    \/ \E r \in etaFetches, response \in Responses, coords \in BOOLEAN :
          etaResponse(r, response, coords)

SpecRoute == InitRoute /\ [][NextRoute]_vars

\* The states reached from InitRoute, a city being selected, by locateUser
\* and its success callback.
InitForm ==
    \E cityId \in KnownCities, pos \in Positions :
        Start(cityId, {[pos |-> pos, accuracy |-> TRUE]}, 1)

\* The form and the ETA request: the user edits the form and asks for the
\* ETA of the selected city.
NextForm ==
    \/ init
    \/ \E h \in FormHours : inputHour(h)
    \/ \E d \in FormDays : changeDay(d)
    \/ \E w \in FormWeathers : changeWeather(w)
    \/ \E h \in ClockHours, d \in ClockDays : appCalculateETA(h, d)
    \/ \E r \in etaFetches, response \in Responses, coords \in BOOLEAN :
          etaResponse(r, response, coords)

SpecForm == InitForm /\ [][NextForm]_vars

\* The states reached from Init by handleCitySelection before the map is
\* initialised, a city being selected.
InitSelected == \E cityId \in KnownCities : Start(cityId, {}, 0)

\* The overlay and the clearing of the selection: the user toggles the
\* all-cities overlay and clears the selection (by the empty value of the
\* <select>, or by an id that is no known city).
NextOverlay ==
    \/ init
    \/ \E cityId \in UnknownCities : handleCitySelection(cityId)
    \/ deselectCity
    \/ toggleAllCities
    \/ \E r \in overlayRuns, response \in Responses : overlayResponse(r, response)

SpecOverlay == InitSelected /\ [][NextOverlay]_vars

\* Utils.validateForm is called with any form data.
NextValidate == \E fd \in FormDatas : callValidateForm(fd)

SpecValidate == Init /\ [][NextValidate]_vars

\* The form and the prediction request: with a city selected, the user
\* edits the form and asks for predictions.  The hour may be set outside
\* 0..23: main.js puts no bound on the value of #hour.
NextSubmit ==
    \/ \E h \in FormHours \cup OutOfRangeHours : inputHour(h)
    \/ \E d \in FormDays : changeDay(d)
    \/ \E w \in FormWeathers : changeWeather(w)
    \/ clickPredict
    \/ \E r \in predictionFetches, response \in Responses, recs \in BOOLEAN :
          predictionResponse(r, response, recs)

SpecSubmit == InitSelected /\ [][NextSubmit]_vars

\* The TrafficMap of part_000: the user locates themself, a prediction
\* puts its marker on the map.
NextPart000 ==
    \/ init
    \/ locateUser_part000
    \/ \E n \in geoRequests, pos \in Positions : locateSuccess_part000(n, pos)
    \/ \E n \in geoRequests, code \in GeoErrors : locateError_part000(n, code)
    \/ \E cityId \in tunisiaCities \cup {4}, level \in TrafficLevels :
          updateTrafficMarker(cityId, level)

SpecPart000 == Init /\ [][NextPart000]_vars

\* Nothing is in flight (no fetch, no geolocation request, no timer, no
\* overlay loop) and fewer than MaxOperations requests have been made.
MaxOperations == 3
Idle ==
    /\ trafficFetches = {} /\ predictionFetches = {} /\ etaFetches = {}
    /\ geoRequests = {} /\ timers = 0 /\ overlayRuns = {}
    /\ trafficSeq + predictionSeq + etaSeq + locateSeq + overlaySeq < MaxOperations

\* The whole map client used by a patient user, who starts an operation
\* only when the one before has been answered: selection, deselection,
\* prediction, location, ETA and overlay, one after the other in any order,
\* MaxOperations requests in all.
NextSerial ==
    \/ init
    \/ Idle /\ \E cityId \in CityIds : handleCitySelection(cityId)
    \/ Idle /\ deselectCity
    \/ \E r \in trafficFetches, response \in Responses : trafficResponse(r, response)
    \/ Idle /\ clickPredict
    \/ \E r \in predictionFetches, response \in Responses, recs \in BOOLEAN :
          predictionResponse(r, response, recs)
    \/ Idle /\ locateUser
    \/ \E n \in geoRequests, pos \in Positions : locateSuccess(n, pos)
    \/ \E n \in geoRequests, denied \in BOOLEAN : locateError(n, denied)
    \/ Idle /\ \E h \in ClockHours, d \in ClockDays : appCalculateETA(h, d)
    \/ \E r \in etaFetches, response \in Responses, coords \in BOOLEAN :
          etaResponse(r, response, coords)
    \/ Idle /\ toggleAllCities
    \/ \E r \in overlayRuns, response \in Responses : overlayResponse(r, response)

SpecSerial == Init /\ [][NextSerial]_vars

\* The display of a traffic level: the lookups of utils.js are called and
\* updateTrafficMarker of part_000 makes the marker's popup.
NextLevels ==
    \/ init
    \/ \E cityId \in tunisiaCities \cup {4}, level \in TrafficLevels :
          updateTrafficMarker(cityId, level)
    \/ \E level \in TrafficLevels : callGetTrafficLoad(level)
    \/ \E level \in TrafficLevels : callGetTravelAdvisory(level)

SpecLevels == Init /\ [][NextLevels]_vars

\* The fallback predictor is called with any request.
NextPredict == \E request \in PredictionRequests : callPredict(request)

SpecPredict == Init /\ [][NextPredict]_vars

\* calculateDistance is called with any two points.
NextDistance ==
    \E lat1, lat2 \in Latitudes, lon1, lon2 \in Longitudes :
        callCalculateDistance(lat1, lon1, lat2, lon2)

SpecDistance == Init /\ [][NextDistance]_vars

\* findNearestCity of part_000: the nearest city is asked for, before any
\* location is there or after a position was detected.
InitNearest ==
    \/ Start(NULL, {}, 0)
    \/ \E pos \in Positions : Start(NULL, {[pos |-> pos, accuracy |-> TRUE]}, 1)

NextNearest ==
    \E cities \in CityTables, distance \in Distances :
        callFindNearestCity(cities, distance)

SpecNearest == InitNearest /\ [][NextNearest]_vars

\* Quick predict at any time of the week, with no city selected: the user
\* picks a weather and clicks Quick predict, whose timers fire and find no
\* city.
NextClock ==
    \/ \E weather \in FormWeathers : changeWeather(weather)
    \/ \E h \in CalendarHours, d \in CalendarDays : quickPredict(h, d)
    \/ timerFires

SpecClock == Init /\ [][NextClock]_vars

\* One function made by Utils.debounce: it is called, its timer fires.
NextDebounce ==
    \/ \E args \in DebounceArgs : executedFunction(args)
    \/ \E t \in debounceTimers : later(t)

SpecDebounce == Init /\ [][NextDebounce]_vars

\* --------------------------------------------------------------- claims

\* C1: when handleCitySelection(A) is followed by handleCitySelection(B)
\* before A's fetch has resolved, then once both fetches have resolved, in
\* whichever order, the traffic data, the city card and the selected-city
\* marker are those of B.  Stated on the final state: when no fetch is
\* pending and the marker made for the last request, for the selected city,
\* is on the map (so that request succeeded), the traffic data, the card
\* and the current marker are those of the selected city.
C1_FinalStateReflectsLastSelection ==
    (/\ trafficFetches = {}
     /\ currentCityId # NULL
     /\ Layer("selected", currentCityId, trafficSeq) \in layers)
    => /\ currentTrafficData # {}
       /\ \A d \in currentTrafficData : d.city = currentCityId
       /\ cityDetails # {}
       /\ \A c \in cityDetails : c.city = currentCityId
       /\ currentTrafficMarker # {}
       /\ \A m \in currentTrafficMarker : m.city = currentCityId

\* C6: when the traffic fetch for the selected known city fails, the city
\* card is still rendered for that city, without live traffic, and the
\* badge shows no traffic level.  Stated on the state in which the fetch of
\* the last selection has resolved: the card is displayed for the selected
\* city, and a traffic level in the badge is one fetched for that city.
C6_CardRenderedWhenFetchResolved ==
    (/\ trafficSeq > 0
     /\ trafficFetches = {}
     /\ currentCityId # NULL)
    => /\ selectedCityInfo = "block"
       /\ cityDetails # {}
       /\ \A c \in cityDetails : c.city = currentCityId
       /\ \A b \in trafficLevel : b.src = "traffic" => b.city = currentCityId

\* C7: after clearCitySelection the slot stays Unselected until the next
\* handleCitySelection: while no city is selected the traffic data is null
\* and the city card is hidden, whatever response arrives.
C7_UnselectedStaysUnselected ==
    currentCityId = NULL => (currentTrafficData = {} /\ selectedCityInfo = "none")
\* C2: a prediction response is applied to the displayed prediction only
\* if it answers the most recently issued predictTraffic request; the
\* response of an earlier request leaves the traffic level, the message
\* and the recommendations unchanged.
C2_OnlyLatestPredictionApplied ==
    [][\A r \in predictionFetches :
          (r \notin predictionFetches' /\ r.id < predictionSeq)
          => UNCHANGED <<trafficLevel, trafficMessage, recommendationsList>>]_vars

\* C3: the route on the map (polyline and destination marker) is either
\* absent or the result of the most recently issued ETA request.
C3_RouteIsOfLatestRequest ==
    \A l \in routeLayer \cup destinationMarker : l.req = etaSeq

\* C4: at most one prediction request is in flight at a time.
C4_OnePredictionInFlight == Cardinality(predictionFetches) <= 1

\* C5: whatever the answer to a prediction request (success, success=false,
\* a failing fetch or parse), predictTraffic publishes a prediction result
\* for that request.
C5_EveryPredictionPublished ==
    [][\A r \in predictionFetches :
          r \notin predictionFetches'
          => trafficLevel' = {[src |-> "prediction", city |-> r.body.city,
                               req |-> r.id]}]_vars

\* C8: the hour, day and weather of an ETA request equal the hour, day and
\* weather of the form at the time the request is issued.
C8_EtaRequestCarriesFormValues ==
    [][\A r \in etaFetches' :
          r \notin etaFetches
          => (r.hour = formHour /\ r.day = formDay /\ r.weather = formWeather)]_vars

\* C9: an ETA request is issued only with the user location set and for a
\* known city (the selected one when App asks); a call of calculateETA that
\* returns before the fetch returns null, does so because the location is
\* unset or the city unknown, and leaves the requests, the route, the
\* markers and the user location unchanged.
C9_EtaRequestNeedsLocationAndCity ==
    [][/\ \A r \in etaFetches' \ etaFetches :
             /\ userLocation # {}
             /\ r.origin = userLocation
             /\ r.city \in KnownCities
             /\ r.viaApp => currentCityId = r.city
       /\ (etaReturn' # etaReturn /\ \E x \in etaReturn' : x.req = 0)
          => /\ \A x \in etaReturn' :
                   /\ x.value = "null"
                   /\ userLocation = {} \/ x.cityId \notin KnownCities
             /\ UNCHANGED <<etaFetches, etaSeq, routeLayer, destinationMarker,
                            layers, userLocation, userMarker,
                            currentTrafficMarker>>]_vars

\* Reached for C9: with the location known and a route on the map,
\* calculateETA was called for an unknown city and returned before the fetch.
C9_Witness ==
    /\ userLocation # {}
    /\ routeLayer # {}
    /\ \E x \in etaReturn : x.req = 0 /\ x.cityId \in UnknownCities

\* C10: when an ETA request fails (success=false, or an exception),
\* calculateETA returns null and the step draws nothing: the polyline, the
\* destination marker, the layers of the map and the ETA display are those
\* of before.
C10_FailedEtaDrawsNothing ==
    [][\A r \in etaFetches \ etaFetches' :
          \E x \in etaReturn' :
             /\ x.req = r.id
             /\ x.response # "success"
                => /\ x.value = "null"
                   /\ UNCHANGED <<routeLayer, destinationMarker, layers,
                                  etaDisplay>>]_vars

\* Reached for C10: the map being there, an ETA request has answered
\* success=false and no route of that request is on the map.
C10_Witness ==
    /\ map
    /\ \E x \in etaReturn :
          /\ x.req > 0
          /\ x.response = "unsuccessful"
          /\ \A l \in layers :
                l.kind \in {"route", "destination"} => l.req # x.req

\* C17: clearCitySelection resets the selection state (city id, city data
\* and traffic data null, card hidden, ETA button disabled) and removes the
\* selected-city marker from the map: after a step that clears a selected
\* city, no selected-city marker is on the map.
C17_ClearRemovesSelectedMarker ==
    [][(currentCityId # NULL /\ currentCityId' = NULL)
       => /\ currentCityData' = NULL
          /\ currentTrafficData' = {}
          /\ selectedCityInfo' = "none"
          /\ etaBtnDisabled'
          /\ \A l \in layers' : l.kind # "selected"]_vars

\* C18: clearCitySelection leaves the all-cities overlay unchanged: the
\* showAllCities flag, the overlay layer, the per-city overlay markers and
\* the overlay markers on the map are the same after the call as before.
C18_ClearLeavesOverlay ==
    [][((currentCityId # NULL /\ currentCityId' = NULL)
           \/ clearedOverlay' # clearedOverlay)
       => /\ UNCHANGED <<showAllCities, allCitiesLayer, cityMarkers, overlayRuns>>
          /\ overlayMarkers' = overlayMarkers
          /\ \A c \in clearedOverlay' :
                /\ c.showAllCities = showAllCities'
                /\ c.allCitiesLayer = allCitiesLayer']_vars

\* Reached for C18: clearCitySelection ran with the overlay enabled and its
\* layer on the map; the selection is cleared and the overlay is as the
\* call found it, its markers on the map.
C18_Witness ==
    /\ currentCityId = NULL
    /\ showAllCities
    /\ cityMarkers # {}
    /\ clearedOverlay = {[showAllCities |-> TRUE, allCitiesLayer |-> allCitiesLayer]}
    /\ \E g \in allCitiesLayer : g.markers # {} /\ g.markers \subseteq layers

\* C19: whenever the all-cities overlay is disabled and all its fetches
\* have resolved, no overlay marker is on the map, whatever the sequence of
\* toggleAllCities calls.
C19_DisabledOverlayHasNoMarkers ==
    (~showAllCities /\ overlayRuns = {}) => overlayMarkers = {}

\* C20: when the all-cities overlay is enabled and its fetches have
\* resolved, the map holds exactly the markers of the current overlay
\* layer, one for each city whose fetch succeeded, and never two overlay
\* markers for the same city.
C20_OneOverlayMarkerPerCity ==
    (showAllCities /\ overlayRuns = {})
    => /\ \A l, m \in overlayMarkers : l.city = m.city => l = m
       /\ overlayMarkers = UNION {g.markers : g \in allCitiesLayer}

\* C13: for a burst of n >= 1 calls of a debounced function, each made
\* before the timer of the previous one has fired, func is invoked exactly
\* once, after the last call, with the arguments of the last call.  While a
\* burst is in progress exactly one timer is pending and it carries the
\* arguments of the last call; func is invoked only by that timer, with
\* those arguments, and nothing is pending afterwards.
C13_DebounceInvokesOnceWithLastArgs ==
    [][/\ Cardinality(debounceTimers') <= 1
       /\ (debounceTimers' = {}) <=> (burst' = <<>>)
       /\ \A t \in debounceTimers' : t.args = calls'[Len(calls')]
       /\ invoked' # invoked
          => /\ burst # <<>>
             /\ invoked' = Append(invoked, [args |-> burst[Len(burst)],
                                            after |-> Len(calls)])
             /\ debounceTimers' = {}]_vars

\* Reached for C13: a burst of three calls, the last with other arguments
\* than the first two, then one invocation of func with the arguments of
\* the third call, and no timer left.
C13_Witness ==
    /\ calls = <<"a", "b", "c">>
    /\ invoked = <<[args |-> "c", after |-> 3]>>
    /\ debounceTimers = {}

\* C14: at any time at most one delayed prediction submission is pending:
\* scheduling a new one while an earlier timer has not fired cancels the
\* earlier one.
C14_OneDelayedSubmissionPending == timers <= 1

\* C15: no prediction request is submitted while a form value violates its
\* constraint (hour in 0..23, day in 0..6, a known city, weather in 0..2):
\* every request in flight carries values that satisfy all four.
C15_SubmittedRequestsAreValid ==
    \A r \in predictionFetches :
        /\ r.body.hour \in 0 .. 23
        /\ r.body.day \in 0 .. 6
        /\ r.body.city \in KnownCities
        /\ r.body.weather \in 0 .. 2

C11_DeniedLeavesLocationUnset ==
    [][(/\ geoRequests' # geoRequests
        /\ locationStatus' =
              "Location detection failed. Please enable location permissions.")
       => UNCHANGED <<userLocation, userMarker>>]_vars

\* C12: a default location substituted after a geolocation failure is never
\* the origin of an ETA request as if it were a detected location: the
\* origin of every ETA request in flight is a location the device reported.
C12_EtaOriginIsDetected ==
    \A r \in etaFetches : \A o \in r.origin : o.accuracy

\* C22: predictTraffic never raises to its caller for a predictable failure
\* of the remote call (network error, non-success response, malformed
\* body): whenever a prediction request is answered, the call settles as
\* fulfilled and the loading overlay is hidden.
C22_PredictTrafficNeverRaises ==
    [][\A r \in predictionFetches \ predictionFetches' :
          /\ ~loadingOverlay'
          /\ \E x \in predictReturn' :
                x.req = r.id /\ x.settled = "fulfilled"]_vars

\* Reached for C22: the fetch or the parsing of a prediction request threw,
\* the call has returned normally and the loading overlay is hidden.
C22_Witness ==
    /\ \E x \in predictReturn :
          x.req > 0 /\ x.response = "error" /\ x.settled = "fulfilled"
    /\ ~loadingOverlay

\* C21: in showAllCitiesOnMap the failure of the fetch of some cities does
\* not abort the rest: whatever the answer for a city, the run goes on to
\* the next city or, after the last, makes the layer; a city gets its
\* marker on the map exactly when its own fetch succeeded, whatever the
\* outcome for the other cities.
C21_OverlayFetchesAreIndependent ==
    [][\A r \in overlayRuns \ overlayRuns' :
          LET markersOf(outcomes) ==
                  {Layer("overlay", CityOrder[i], r.id) :
                       i \in {j \in 1 .. Len(outcomes) : outcomes[j] = "success"}}
          IN  IF r.next < Len(CityOrder)
              THEN \E q \in overlayRuns' :
                      /\ q.id = r.id
                      /\ q.next = r.next + 1
                      /\ Len(q.outcomes) = r.next
                      /\ q.markers = markersOf(q.outcomes)
                      /\ q.markers \subseteq layers'
              ELSE \E g \in allCitiesLayer' :
                      /\ g.id = r.id
                      /\ Len(g.outcomes) = Len(CityOrder)
                      /\ g.markers = markersOf(g.outcomes)
                      /\ g.markers \subseteq layers']_vars

\* Reached for C21: a run of showAllCitiesOnMap has finished in which the
\* fetch of the first city threw and the fetch of the second succeeded; the
\* layer holds the marker of the second city only, and it is on the map.
C21_Witness ==
    \E g \in allCitiesLayer :
        /\ g.outcomes = <<"error", "success">>
        /\ g.markers = {Layer("overlay", CityOrder[2], g.id)}
        /\ g.markers \subseteq layers

\* C23: for every calendar day d in 0..6 (0 = Sunday) read from the clock,
\* updateFormWithCurrentTime sets the form day to (d + 6) mod 7, a value
\* in 0..6 (Monday gives 0, Sunday 6), and the form hour to the clock hour.
C23_FormDayIsRotatedClockDay ==
    [][timers' > timers
       => \A c \in now' :
             /\ formDay' = (c.day + 6) % 7
             /\ formDay' \in 0 .. 6
             /\ formHour' = c.hour]_vars

\* Reached for C23: Quick predict was clicked on a Sunday at 23 h; the
\* form holds day 6 and hour 23 and the timer is pending.
C23_Witness ==
    /\ timers > 0
    /\ now = {[hour |-> 23, day |-> 0]}
    /\ formDay = 6
    /\ formHour = 23

\* C24: with a user location and at least one known city, findNearestCity
\* returns a known city that no other known city is nearer than, and the
\* one of lowest id among those at that distance (so the only city when
\* there is one); with no known city or no user location it returns none.
C24_NearestCityIsMinimalLowestId ==
    \A c \in called :
        c.fn = "findNearestCity"
        => IF c.cities = {} \/ c.userLocation = {}
           THEN returned = {}
           ELSE /\ Cardinality(returned) = 1
                /\ \A id \in returned :
                      /\ id \in c.cities
                      /\ \A other \in c.cities :
                            /\ c.distance[id] <= c.distance[other]
                            /\ c.distance[other] = c.distance[id] => id <= other
                      /\ \A only \in c.cities : c.cities = {only} => id = only

\* Reached for C24: with the user located, cities 1 and 3 of the whole
\* table are at the same distance, nearer than cities 0 and 2, and city 1
\* is returned.
C24_Witness ==
    /\ returned = {1}
    /\ \E c \in called :
          /\ c.fn = "findNearestCity"
          /\ c.userLocation # {}
          /\ c.cities = tunisiaCities
          /\ c.distance[1] = c.distance[3]
          /\ c.distance[0] > c.distance[1]
          /\ c.distance[2] > c.distance[1]

\* C25: for a traffic level in {0, 1, 2} each display attribute (load
\* band, advisory, label, message, colour) is the fixed, non-empty entry of
\* its table; for any other integer each lookup gives an "unknown" value:
\* one that is defined and is the attribute of none of the levels 0, 1, 2.
C25_LevelAttributesFixedOrUnknown ==
    LET known(table) == {table[l] : l \in 0 .. 2}
        fits(value, table, level) ==
            IF level \in 0 .. 2
            THEN value = table[level] /\ value # ""
            ELSE value # undefined /\ value \notin known(table)
    IN  /\ \A c \in called, value \in returned :
              /\ c.fn = "getTrafficLoad" => fits(value, loads, c.trafficLevel)
              /\ c.fn = "getTravelAdvisory" => fits(value, advisories, c.trafficLevel)
        /\ \A p \in popup :
              /\ fits(p.label, trafficLabels, p.trafficLevel)
              /\ fits(p.message, trafficMessages, p.trafficLevel)
              /\ fits(p.colour, trafficColors, p.trafficLevel)

\* C26: the user location changes only in a geolocation callback of
\* locateUser, which sets it, or at a new locate request, which may clear
\* it: no selection, deselection, prediction, ETA request, route drawing
\* or overlay toggle changes it, and nothing else ever clears it.
C26_OnlyGeolocationWritesLocation ==
    [][userLocation' # userLocation
       => \/ (geoRequests \ geoRequests' # {}) /\ userLocation' # {}
          \/ locateSeq' > locateSeq /\ userLocation' = {}]_vars

\* Reached for C26: the position was detected, and it is still there
\* after a city was selected on the map, its ETA asked for and the route
\* drawn.
C26_Witness ==
    /\ \E pos \in Positions : userLocation = {[pos |-> pos, accuracy |-> TRUE]}
    /\ routeLayer # {}
    /\ currentCityId # NULL
    /\ trafficSeq > 0

\* C27: a successful ETA response replaces any route drawn before: when
\* the answer to an ETA request has been handled with success on the map,
\* at most one route polyline and at most one destination marker are on
\* the map, held by routeLayer and destinationMarker, and they are those
\* made for that request.
C27_DrawRouteReplacesRoute ==
    [][\A r \in etaFetches \ etaFetches' :
          (map /\ \E x \in etaReturn' : x.req = r.id /\ x.response = "success")
          => /\ {l \in layers' : l.kind = "route"} = routeLayer'
             /\ {l \in layers' : l.kind = "destination"} = destinationMarker'
             /\ routeLayer' \subseteq {Layer("route", r.city, r.id)}
             /\ destinationMarker' \subseteq {Layer("destination", r.city, r.id)}
             /\ Cardinality(routeLayer') <= 1
             /\ Cardinality(destinationMarker') <= 1]_vars

\* Reached for C27: the route of a second ETA request is on the map, the
\* only one there.
C27_Witness ==
    \E id \in 2 .. MaxEtaRequests, city \in CityIds :
        /\ routeLayer = {Layer("route", city, id)}
        /\ destinationMarker = {Layer("destination", city, id)}
        /\ {l \in layers : l.kind \in {"route", "destination"}}
              = routeLayer \cup destinationMarker

\* C28: the fallback predictor classifies a request by its score, the sum
\* of the contributions of hour, day, city and weather: High from 3.5 on,
\* Medium from 1.5 on, Low below (7 and 3 halves); the request {hour 17,
\* day 4, capital, weather 1} scores 5.5 and is High, the request {hour 2,
\* day 2, a city neither capital nor second, weather 0} scores 0 and is Low.
C28_FallbackClassifiesByScore ==
    \A c \in called, r \in returned :
        c.fn = "predict"
        => /\ r.level = "High" <=> r.halves >= 7
           /\ r.level = "Medium" <=> (r.halves >= 3 /\ r.halves < 7)
           /\ r.level = "Low" <=> r.halves < 3
           /\ c.request = [hour |-> 17, day |-> 4, city |-> "capital", weather |-> 1]
                 => r.halves = 11 /\ r.level = "High"
           /\ c.request = [hour |-> 2, day |-> 2, city |-> "other", weather |-> 0]
                 => r.halves = 0 /\ r.level = "Low"
           /\ (c.request.hour = 2 /\ c.request.day \in 0 .. 3)
                 => r.halves = cityHalves(c.request.city)
                                  + weatherHalves(c.request.weather)

\* Reached for C28: the Friday evening request for the capital in the rain
\* was classified High with a score of 5.5.
C28_Witness ==
    /\ called = {[fn |-> "predict",
                  request |-> [hour |-> 17, day |-> 4, city |-> "capital",
                               weather |-> 1]]}
    /\ returned = {[halves |-> 11, level |-> "High"]}

\* C29: calculateDistance is symmetric, the distance from a to b is the
\* distance from b to a (here exactly, so within 1e-6 km), and the distance
\* from a point to itself is 0.
C29_DistanceIsSymmetric ==
    \A c \in called :
        c.fn = "calculateDistance"
        => /\ returned = {calculateDistance(c.lat2, c.lon2, c.lat1, c.lon1)}
           /\ (c.lat1 = c.lat2 /\ c.lon1 = c.lon2) => returned = {0}

\* Reached for C29: the distance between two points of different latitude
\* and longitude was computed, and it is not 0.
C29_Witness ==
    /\ \E c \in called :
          /\ c.fn = "calculateDistance"
          /\ c.lat1 = 0 /\ c.lon1 = 0 /\ c.lat2 = 0 - 60 /\ c.lon2 = 60
    /\ \E d \in returned : d > 0

\* C30: at most one selected-city marker is on the map at any time, for
\* every interleaving of showCityTraffic calls: the marker one call added
\* is removed before or when another call adds its own.
C30_OneSelectedMarkerOnMap ==
    Cardinality({l \in layers : l.kind = "selected"}) <= 1

\* C31: whenever the current traffic data is not null, it is the traffic
\* data fetched for the currently selected city: after a city change whose
\* fetch fails or has not resolved yet, the traffic data and the traffic
\* badge of the city selected before are not kept as current.
C31_TrafficDataIsOfSelectedCity ==
    /\ \A d \in currentTrafficData : d.city = currentCityId
    /\ \A b \in trafficLevel : b.src = "traffic" => b.city = currentCityId

\* C32: between event handlers the current city data is non-null exactly
\* when the current city id is non-null, the id is then that of a known
\* city and the data is the city registered under it (what getCurrentCity
\* returns is the selected city).
C32_CityDataMatchesCityId ==
    /\ currentCityId = NULL <=> currentCityData = NULL
    /\ currentCityId # NULL
          => currentCityId \in KnownCities /\ currentCityData = currentCityId

\* Reached for C32: a second city was selected on the map after a first,
\* and it is the current city.
C32_Witness ==
    /\ trafficSeq = 2
    /\ currentCityId \in KnownCities
    /\ currentCityData = currentCityId
    /\ \E r \in trafficFetches : r.id = 2 /\ r.city = currentCityId

\* C33: selecting a city id that is not a known city ends with no city
\* selected (current city id, city data and traffic data all null) and
\* issues no traffic fetch.  The steps that leave no known city selected
\* and are neither TrafficMap.init nor the answer to a fetch are the
\* selections of an unknown id.
C33_UnknownCityEndsUnselected ==
    [][(/\ currentCityId' \notin KnownCities
        /\ mapInitialized' = mapInitialized
        /\ ~(trafficFetches' \subseteq trafficFetches /\ trafficFetches' # trafficFetches))
       => /\ currentCityId' = NULL
          /\ currentCityData' = NULL
          /\ currentTrafficData' = {}
          /\ trafficFetches' = trafficFetches
          /\ trafficSeq' = trafficSeq]_vars

\* Reached for C33: a city was selected on the map and its traffic data
\* loaded, then an unknown id was selected: nothing is selected, no data is
\* current and no fetch is pending.
C33_Witness ==
    /\ clearedOverlay # {}
    /\ trafficSeq = 1
    /\ cityDetails # {}
    /\ currentCityId = NULL /\ currentCityData = NULL /\ currentTrafficData = {}
    /\ trafficFetches = {}

\* C34: a prediction request is issued only while a city is selected, and
\* the city id it carries is the id of the known city selected when it is
\* issued; with no city selected predictTraffic issues no request and
\* changes nothing of the selection, the page, the form or the map.
C34_PredictionCarriesSelectedCity ==
    [][/\ \A r \in predictionFetches' \ predictionFetches :
             /\ currentCityId \in KnownCities
             /\ r.body.city = currentCityId
       /\ (/\ currentCityId = NULL
           /\ \E x \in predictReturn' : x.req = 0
           /\ predictReturn' # predictReturn \/ timers' < timers)
          => /\ predictionFetches' = predictionFetches
             /\ predictionSeq' = predictionSeq
             /\ UNCHANGED <<appVars, domVars, formVars, mapVars>>]_vars

\* Reached for C34: predictTraffic returned at once when no city was
\* selected, and a request issued since carries the selected city.
C34_Witness ==
    /\ \E x \in predictReturn : x.req = 0
    /\ currentCityId \in KnownCities
    /\ \E r \in predictionFetches : r.body.city = currentCityId

C36_LoadingHiddenOnceAnswered ==
    [][LET answered(before, after) == after \subseteq before /\ after # before
       IN  /\ (\/ answered(trafficFetches, trafficFetches')
               \/ answered(predictionFetches, predictionFetches')
               \/ answered(etaFetches, etaFetches')
               \/ answered(geoRequests, geoRequests'))
              => ~loadingOverlay'
           /\ (/\ trafficFetches' = {} /\ predictionFetches' = {}
               /\ etaFetches' = {} /\ geoRequests' = {})
              => ~loadingOverlay']_vars

\* Reached for C36: the traffic fetch of a selection failed and the
\* overlay is hidden, nothing being pending.
C36_Witness ==
    /\ trafficSeq = 1 /\ trafficFetches = {}
    /\ currentCityId \in KnownCities
    /\ currentTrafficData = {} /\ cityDetails = {}
    /\ predictionFetches = {} /\ etaFetches = {} /\ geoRequests = {}
    /\ ~loadingOverlay

\* C37: TrafficMap.init is idempotent: once the map has been initialised,
\* a further call of init creates no second map and leaves every piece of
\* map state as it is: the map, the user location, the markers, the route,
\* the layers on the map and the all-cities overlay.
C37_InitIsIdempotent ==
    [][(mapInitialized /\ called' = {[fn |-> "init"]} /\ called' # called)
       => /\ map' /\ mapInitialized'
          /\ UNCHANGED <<mapVars, overlayVars>>]_vars

\* Reached for C37: init was called again with the markers of the selected
\* city and of the user on the map, and they are still there.
C37_Witness ==
    /\ called = {[fn |-> "init"]}
    /\ mapInitialized
    /\ currentTrafficMarker # {} /\ userMarker # {}
    /\ currentTrafficMarker \cup userMarker \subseteq layers
====
